---------------------------- MODULE Spec2Model ----------------------------
(***************************************************************************)
(* A model of GenXL's src/main.py: the JSON extraction of an LLM answer    *)
(* (parse_llm_json), the styling of one cell (apply_cell_style), the       *)
(* rendering of a mapping into a workbook (generate_excel) and the         *)
(* pipeline that chains them (main).                                       *)
(*                                                                         *)
(* Three specifications share the variables:                               *)
(*   SpecParse  parse_llm_json applied to bounded texts;                   *)
(*   SpecStyle  apply_cell_style applied to bounded cell records;          *)
(*   Spec       one run of main(), generate_excel taken statement by       *)
(*              statement.                                                 *)
(*                                                                         *)
(* Encoding of Python values.  A text is a sequence of one-character       *)
(* strings (the backtick is the element "bt").  A JSON value is a tagged   *)
(* tuple: <<"null">>, <<"bool", b>>, <<"num", n>>, <<"str", s>>,           *)
(* <<"obj", f>> with f a function from keys to values.  A cell record is a *)
(* function from the keys that are present to tagged values.               *)
(***************************************************************************)
EXTENDS Integers, Sequences, FiniteSets, TLC

VARIABLES
    \* ---- SpecParse: parse_llm_json ----
    raw_text,      \* the argument of parse_llm_json
    json_text,     \* the JSON object the text was built around (<<>> if none)
    family,        \* "free": an arbitrary text; "wrapped": a wrapped object
    result,        \* what parse_llm_json(raw_text) did
    json_result,   \* what parse_llm_json(json_text) did
    \* ---- SpecStyle: apply_cell_style ----
    style_data,    \* the record given to apply_cell_style
    cell_before,   \* the cell as it was before the record was applied
    cell_after,    \* the cell now (after the record, once it is applied)
    style_done,    \* whether apply_cell_style has run
    \* ---- Spec: main ----
    pc,            \* the statement main() is about to execute
    error,         \* the exception that ended the run ("none" while running)
    env,           \* what main() finds around it: input file, data, API key
    llm_reply,     \* what parse_llm_json will make of the producer's answer
    mappings,      \* output_data_mappings: a sequence of [name, records]
    workbook,      \* final_workbook: a sequence of [title, cells, default]
    sheet_i,       \* position in output_data_mappings.items()
    value_i,       \* position in values of the current sheet
    buf,           \* the io.BytesIO buffer: <<>> or the serialized workbook
    file,          \* the content of output_path
    file_opened,   \* whether output_path was opened for writing
    trace          \* the stages that have started, in order

parseVars == <<raw_text, json_text, family, result, json_result>>
styleVars == <<style_data, cell_before, cell_after, style_done>>
mainVars  == <<pc, error, env, llm_reply, mappings, workbook, sheet_i, value_i,
               buf, file, file_opened, trace>>
vars == <<parseVars, styleVars, mainVars>>

-----------------------------------------------------------------------------
(* Bounds *)

\* the longest free text, in tokens
MaxTok == 4
\* the deepest nesting of a wrapped JSON object
MaxDepth == 2
\* the most sheets of a mapping
MaxSheets == 2
\* the most cell records of a mapping, all sheets together
MaxRecords == 2

-----------------------------------------------------------------------------
(* Characters and texts *)

LB == "{"
RB == "}"
QT == "\""
CL == ":"
\* the backtick (U+0060), which a string literal of the language cannot hold
BT == "bt"
SP == " "
NL == "\n"

\* The letters and digits of the alphabet of the model.
Letters == {"a"}
Digits  == {"1"}

\* str.strip() and the JSON scanner skip the same characters of the alphabet.
IsWs(c) == c \in {SP, NL}

RECURSIVE LStrip(_)
LStrip(s) == IF s # <<>> /\ IsWs(Head(s)) THEN LStrip(Tail(s)) ELSE s

RECURSIVE RStrip(_)
RStrip(s) ==
    IF s # <<>> /\ IsWs(s[Len(s)]) THEN RStrip(SubSeq(s, 1, Len(s) - 1)) ELSE s

\* str.strip()
Strip(s) == RStrip(LStrip(s))

\* str.startswith / str.endswith
StartsWith(s, p) == Len(s) >= Len(p) /\ SubSeq(s, 1, Len(p)) = p
EndsWith(s, p) == Len(s) >= Len(p) /\ SubSeq(s, Len(s) - Len(p) + 1, Len(s)) = p

Fence == <<BT, BT, BT>>

RECURSIVE DropLetters(_)
DropLetters(s) ==
    IF s # <<>> /\ Head(s) \in Letters THEN DropLetters(Tail(s)) ELSE s

\* re.sub(r"^```[a-zA-Z]*", "", text) on a text that starts with ```
SubFenceOpen(text) == DropLetters(SubSeq(text, 4, Len(text)))

\* re.sub(r"```$", "", text); the text has no trailing newline here, so $ is
\* the end of the text
SubFenceClose(text) ==
    IF EndsWith(text, Fence) THEN SubSeq(text, 1, Len(text) - 3) ELSE text

\* lines 193-198: the text in which the braces are looked for
FenceStrip(raw) ==
    LET text == Strip(raw)
    IN  IF StartsWith(text, Fence)
        THEN Strip(SubFenceClose(SubFenceOpen(text)))
        ELSE text

\* str.find(c): the first position (from 1) of c, 0 for Python's -1
Find(s, c) ==
    IF \E i \in 1..Len(s) : s[i] = c
    THEN CHOOSE i \in 1..Len(s) : s[i] = c /\ \A k \in 1..(i - 1) : s[k] # c
    ELSE 0

\* find where rfind is meant: the first position of c
RFindFirst(s, c) == Find(s, c)

\* str.rfind(c): the last position (from 1) of c, 0 for Python's -1
RFind(s, c) ==
    IF \E i \in 1..Len(s) : s[i] = c
    THEN CHOOSE i \in 1..Len(s) : s[i] = c /\ \A k \in (i + 1)..Len(s) : s[k] # c
    ELSE 0

-----------------------------------------------------------------------------
(* json.loads on the alphabet of the model: objects, strings, integers *)

JFail == [ok |-> FALSE, pos |-> 0, val |-> <<"null">>]
JOk(p, v) == [ok |-> TRUE, pos |-> p, val |-> v]

RECURSIVE SkipWs(_, _)
SkipWs(s, i) == IF i <= Len(s) /\ IsWs(s[i]) THEN SkipWs(s, i + 1) ELSE i

\* a string literal whose opening quote is at i: up to the next quote; a
\* control character (the newline) inside it is an error
ScanString(s, i) ==
    IF \E j \in (i + 1)..Len(s) : s[j] = QT
    THEN LET j == CHOOSE j \in (i + 1)..Len(s) :
                      s[j] = QT /\ \A k \in (i + 1)..(j - 1) : s[k] # QT
         IN  IF \E k \in (i + 1)..(j - 1) : s[k] = NL
             THEN JFail
             ELSE JOk(j + 1, <<"str", SubSeq(s, i + 1, j - 1)>>)
    ELSE JFail

RECURSIVE DigitsEnd(_, _)
DigitsEnd(s, i) ==
    IF i <= Len(s) /\ s[i] \in Digits THEN DigitsEnd(s, i + 1) ELSE i

RECURSIVE DigitsValue(_, _, _)
DigitsValue(s, i, j) ==
    IF j < i THEN 0 ELSE DigitsValue(s, i, j - 1) * 10 + 1

\* an integer literal starting at i (its digits are all "1")
ScanNumber(s, i) ==
    LET e == DigitsEnd(s, i)
    IN  JOk(e, <<"num", DigitsValue(s, i, e - 1)>>)

RECURSIVE ScanValue(_, _), ScanMembers(_, _, _)

\* the value that starts at i (no whitespace before it)
ScanValue(s, i) ==
    IF i > Len(s) THEN JFail
    ELSE IF s[i] = QT THEN ScanString(s, i)
    ELSE IF s[i] \in Digits THEN ScanNumber(s, i)
    ELSE IF s[i] = LB
         THEN LET k == SkipWs(s, i + 1)
              IN  IF k <= Len(s) /\ s[k] = RB
                  THEN JOk(k + 1, <<"obj", <<>>>>)
                  ELSE ScanMembers(s, k, <<>>)
    ELSE JFail

\* the members of an object from the key that must start at i; acc holds the
\* pairs read so far; a repeated key keeps its last value.  The alphabet has
\* no comma, so the member must be followed by the closing brace.
ScanMembers(s, i, acc) ==
    IF i > Len(s) \/ s[i] # QT THEN JFail
    ELSE LET key == ScanString(s, i)
         IN  IF ~key.ok THEN JFail
             ELSE LET c == SkipWs(s, key.pos)
                  IN  IF c > Len(s) \/ s[c] # CL THEN JFail
                      ELSE LET v == ScanValue(s, SkipWs(s, c + 1))
                           IN  IF ~v.ok THEN JFail
                               ELSE LET e == SkipWs(s, v.pos)
                                        obj == (key.val[2] :> v.val) @@ acc
                                    IN  IF e <= Len(s) /\ s[e] = RB
                                        THEN JOk(e + 1, <<"obj", obj>>)
                                        ELSE JFail

\* json.loads(s): one value, whitespace around it, nothing after it
JsonLoads(s) ==
    LET v == ScanValue(s, SkipWs(s, 1))
    IN  IF v.ok /\ SkipWs(s, v.pos) = Len(s) + 1 THEN v ELSE JFail

\* J is a valid JSON object
IsJsonObject(s) == JsonLoads(s).ok /\ JsonLoads(s).val[1] = "obj"

-----------------------------------------------------------------------------
(* parse_llm_json *)

\* raise ValueError("No JSON object found in LLM response"), line 204
NoJsonObjectFound == "ValueError: No JSON object found in LLM response"
\* the json.JSONDecodeError that json.loads raises, line 207
MalformedJson == "json.JSONDecodeError"

Pending == [kind |-> "pending", value |-> <<"null">>, loads_called |-> FALSE]

\* a slice that stops one character early: text[first_brace : last_brace]
SliceBracesShort(text, first_brace, last_brace) ==
    LET start == IF first_brace = 0 THEN Len(text) ELSE first_brace
        stop == last_brace - 1
    IN  IF start < 1 \/ stop < start THEN <<>> ELSE SubSeq(text, start, stop)

\* text[first_brace : last_brace + 1], positions counted from 1. A Python
\* slice never raises: a start of -1 (0 here) is the last character, and a
\* stop that is not after the start gives the empty text.
SliceBraces(text, first_brace, last_brace) ==
    LET start == IF first_brace = 0 THEN Len(text) ELSE first_brace
        stop == last_brace
    IN  IF start < 1 \/ stop < start THEN <<>> ELSE SubSeq(text, start, stop)

\* the test with "and" for "or": both braces must be missing
NoBracesBoth(first_brace, last_brace) == first_brace = 0 /\ last_brace = 0

\* first_brace == -1 or last_brace == -1, positions counted from 1
NoBraces(first_brace, last_brace) == first_brace = 0 \/ last_brace = 0

\* parse_llm_json(raw_text): the value returned or the exception raised, and
\* whether json.loads was called
ParseLlmJson(raw) ==
    LET text == FenceStrip(raw)
        first_brace == Find(text, LB)
        last_brace == RFind(text, RB)
    IN  IF NoBraces(first_brace, last_brace)
        THEN [kind |-> NoJsonObjectFound, value |-> <<"null">>,
              loads_called |-> FALSE]
        ELSE LET v == JsonLoads(SliceBraces(text, first_brace, last_brace))
             IN  IF v.ok
                 THEN [kind |-> "ok", value |-> v.val, loads_called |-> TRUE]
                 ELSE [kind |-> MalformedJson, value |-> <<"null">>,
                       loads_called |-> TRUE]

-----------------------------------------------------------------------------
(* The texts parse_llm_json is applied to *)

Tokens == { <<LB>>, <<RB>>, <<QT, "a", QT>>, <<CL>>, <<"1">>, <<SP>>, <<"a">>,
            Fence }

\* every text made of at most n tokens
RECURSIVE FreeTexts(_)
FreeTexts(n) ==
    IF n = 0 THEN {<<>>}
    ELSE LET shorter == FreeTexts(n - 1)
         IN  shorter \cup {t \o tok : t \in shorter, tok \in Tokens}

\* scalar JSON values; the last is a string that holds both braces
Scalars == { <<"1">>, <<QT, "a", QT>>, <<QT, RB, LB, QT>> }

\* JSON objects nested at most d deep
RECURSIVE JsonObjects(_)
JsonObjects(d) ==
    IF d = 0 THEN {<<LB, RB>>}
    ELSE {<<LB, RB>>} \cup
         {<<LB, QT, "a", QT, CL>> \o v \o <<RB>> :
              v \in Scalars \cup JsonObjects(d - 1)} \cup
         {<<LB, SP, QT, "a", QT, SP, CL, SP>> \o v \o <<SP, RB>> : v \in Scalars}

\* prose with no opening brace, to stand before the object
ProseBefore == { <<>>, <<"a", SP>>, <<"a", RB, NL>> }
\* prose with no closing brace, to stand after the object
ProseAfter == { <<>>, <<SP, "a">>, <<NL, LB, "a">> }

\* the opening and closing lines of a fenced block, by kind of fence
FenceOpen(kind) ==
    CASE kind = "none" -> <<>>
      [] kind = "plain" -> Fence \o <<NL>>
      [] kind = "tag" -> Fence \o <<"a", NL>>
      [] kind = "glued" -> Fence \o <<"a">>
FenceClose(kind) ==
    CASE kind = "none" -> <<>>
      [] kind = "glued" -> Fence
      [] OTHER -> <<NL>> \o Fence

FenceKinds == {"none", "plain", "tag", "glued"}

\* J alone, J in a fence, J between prose, and the combinations
Wrappings(J) ==
    { outer_pre \o FenceOpen(k) \o inner_pre \o J \o inner_post
          \o FenceClose(k) \o outer_post :
        k \in FenceKinds, outer_pre \in ProseBefore, inner_pre \in ProseBefore,
        inner_post \in ProseAfter, outer_post \in ProseAfter }

InitParse ==
    /\ \/ /\ family = "free"
          /\ raw_text \in FreeTexts(MaxTok)
          /\ json_text = <<>>
       \/ /\ family = "wrapped"
          /\ json_text \in JsonObjects(MaxDepth)
          /\ raw_text \in Wrappings(json_text)
    /\ result = Pending
    /\ json_result = Pending

\* a call parse_llm_json(raw_text), and the call on the bare object beside it
CallParse ==
    /\ result = Pending
    /\ result' = ParseLlmJson(raw_text)
    /\ json_result' = IF family = "wrapped" THEN ParseLlmJson(json_text) ELSE Pending
    /\ UNCHANGED <<raw_text, json_text, family>>
    /\ UNCHANGED <<styleVars, mainVars>>


-----------------------------------------------------------------------------
(* Python values and dict access *)

JNull == <<"null">>
JStr(s) == <<"str", s>>
JNum(n) == <<"num", n>>
JBool(b) == <<"bool", b>>
\* the dict json.loads gives for "{}"
JEmptyObj == <<"obj", <<>>>>

\* the truth value Python gives a JSON value in "if v:" and "not v"
Truthy(v) ==
    CASE v[1] = "null" -> FALSE
      [] v[1] = "bool" -> v[2]
      [] v[1] = "num" -> v[2] # 0
      [] v[1] = "str" -> Len(v[2]) > 0
      [] v[1] = "obj" -> DOMAIN v[2] # {}
      [] OTHER -> TRUE

\* dict.get(key, default); dict.get(key) is Get(d, key, JNull)
Get(d, key, default) == IF key \in DOMAIN d THEN d[key] ELSE default

-----------------------------------------------------------------------------
(* apply_cell_style *)

\* Side(style=None)
NoSide == [style |-> JNull, color |-> JNull]

\* a cell of a new worksheet: no value, the default font, no fill, the default
\* alignment, no border
DefaultCell ==
    [value |-> JNull,
     font |-> [size |-> JNum(11), color |-> JNull, bold |-> JBool(FALSE),
               italic |-> JBool(FALSE)],
     fill |-> [fill_type |-> JNull, start_color |-> JNull, end_color |-> JNull],
     alignment |-> [horizontal |-> JNull, vertical |-> JNull,
                    wrap_text |-> JNull],
     border |-> [top |-> NoSide, bottom |-> NoSide, left |-> NoSide,
                 right |-> NoSide]]

\* make_side without the test for "none": Side(style="none") is built
MakeSideOfNone(style, border_color) ==
    IF Truthy(style) THEN [style |-> style, color |-> border_color] ELSE NoSide

\* make_side(style), lines 261-264
MakeSide(style, border_color) ==
    IF Truthy(style) /\ style # JStr("none")
    THEN [style |-> style, color |-> border_color]
    ELSE NoSide

\* the fill of the cell after lines 242-247
FillOf(cell, bg_color) ==
    IF Truthy(bg_color)
    THEN [fill_type |-> JStr("solid"), start_color |-> bg_color,
          end_color |-> bg_color]
    ELSE cell.fill

\* the font of the cell after lines 235-240
FontOf(style) ==
    [size |-> Get(style, "font_size", JNum(11)),
     color |-> Get(style, "font_color", JStr("000000")),
     bold |-> Get(style, "is_bold", JBool(FALSE)),
     italic |-> Get(style, "is_italic", JBool(FALSE))]

\* the alignment of the cell after lines 249-253
AlignmentOf(style) ==
    [horizontal |-> Get(style, "horizontal_alignment", JStr("left")),
     vertical |-> Get(style, "vertical_alignment", JStr("center")),
     wrap_text |-> JBool(TRUE)]

\* the border of the cell after lines 255-271
BorderOf(style) ==
    LET border_color == Get(style, "border_color", JStr("D3D3D3"))
    IN  [top |-> MakeSide(Get(style, "border_top", JStr("none")), border_color),
         bottom |-> MakeSide(Get(style, "border_bottom", JStr("none")),
                             border_color),
         left |-> MakeSide(Get(style, "border_left", JStr("none")), border_color),
         right |-> MakeSide(Get(style, "border_right", JStr("none")),
                            border_color)]

\* apply_cell_style(cell, style_data): the cell afterwards
ApplyCellStyle(cell, style) ==
    [cell EXCEPT !.font = FontOf(style),
                 !.fill = FillOf(cell, Get(style, "background_color", JNull)),
                 !.alignment = AlignmentOf(style),
                 !.border = BorderOf(style)]

\* lines 286 and 292-293: cell.value = cell_value; apply_cell_style(cell, value)
ApplyRecord(cell, value) ==
    ApplyCellStyle([cell EXCEPT !.value = Get(value, "cell_value", JNull)], value)

-----------------------------------------------------------------------------
(* The cell records apply_cell_style is applied to *)

\* marks a key the record does not hold
Absent == <<"absent">>

StyleKeys == {"font_size", "font_color", "is_bold", "is_italic",
              "background_color", "horizontal_alignment", "vertical_alignment",
              "border_top", "border_bottom", "border_left", "border_right",
              "border_color"}

\* the values tried for each key
Options(key) ==
    CASE key = "cell_value" -> {JStr("x"), JNum(1)}
      [] key = "font_size" -> {Absent, JNum(12)}
      [] key = "font_color" -> {Absent, JStr("FF0000")}
      [] key = "is_bold" -> {Absent, JBool(TRUE)}
      [] key = "is_italic" -> {Absent, JBool(TRUE)}
      [] key = "background_color" ->
             {Absent, JNull, JStr(""), JEmptyObj, JStr("FFD2BF")}
      [] key = "horizontal_alignment" -> {Absent, JStr("right")}
      [] key = "vertical_alignment" -> {Absent, JStr("top")}
      [] key = "border_top" -> {Absent, JStr("none"), JStr("thin")}
      [] key = "border_bottom" -> {JNull, JStr("medium")}
      [] key = "border_left" -> {JStr(""), JStr("thick")}
      [] key = "border_right" -> {JStr("none"), JStr("thin")}
      [] key = "border_color" -> {Absent, JStr("0000FF")}

\* the dict that holds the keys of f whose value is not Absent
Present(f) == [k \in {k \in DOMAIN f : f[k] # Absent} |-> f[k]]

\* every choice of one option for each key of keys
RECURSIVE Choices(_)
Choices(keys) ==
    IF keys = {} THEN {<<>>}
    ELSE LET k == CHOOSE k \in keys : TRUE
         IN  {(k :> v) @@ r : v \in Options(k), r \in Choices(keys \ {k})}

StyleRecords == {Present(f) : f \in Choices(StyleKeys \cup {"cell_value"})}

\* the document title of the prompt (PRIORITY 1), as a cell record
TitleStyle ==
    [font_size |-> JNum(12), font_color |-> JStr("000000"),
     background_color |-> JStr("FFD2BF"), is_bold |-> JBool(TRUE),
     is_italic |-> JBool(FALSE), horizontal_alignment |-> JStr("left"),
     vertical_alignment |-> JStr("center"), border_top |-> JStr("medium"),
     border_bottom |-> JStr("medium"), border_left |-> JStr("medium"),
     border_right |-> JStr("medium"), border_color |-> JStr("000000")]

\* a field value of the prompt (PRIORITY 4), as a cell record
ValueStyle ==
    [font_size |-> JNum(10), font_color |-> JStr("000000"),
     background_color |-> JNull, is_bold |-> JBool(FALSE),
     is_italic |-> JBool(FALSE), horizontal_alignment |-> JStr("right"),
     vertical_alignment |-> JStr("center"), border_top |-> JStr("thin"),
     border_bottom |-> JStr("thin"), border_left |-> JStr("thin"),
     border_right |-> JStr("thin"), border_color |-> JStr("D3D3D3")]

\* the cells a record is applied to: a new one, and one that an earlier record
\* with the same coordinate has written
StartCells ==
    {DefaultCell, ApplyRecord(DefaultCell, ("cell_value" :> JStr("t")) @@ TitleStyle)}

InitStyle ==
    /\ style_data \in StyleRecords
    /\ cell_before \in StartCells
    /\ cell_after = cell_before
    /\ style_done = FALSE

\* lines 291-293 for one record: the cell is written and styled
ApplyStyle ==
    /\ ~style_done
    /\ cell_after' = ApplyRecord(cell_after, style_data)
    /\ style_done' = TRUE
    /\ UNCHANGED <<style_data, cell_before>>
    /\ UNCHANGED <<parseVars, mainVars>>

-----------------------------------------------------------------------------
(* The workbook of openpyxl, as far as generate_excel uses it *)

\* the title of the sheet a new Workbook() holds
DefaultTitle == <<"S", "h", "e", "e", "t">>

\* the letters A-Z and a-z
UpperLetters == <<"A", "B", "C", "D", "E", "F", "G", "H", "I", "J", "K", "L",
                  "M", "N", "O", "P", "Q", "R", "S", "T", "U", "V", "W", "X",
                  "Y", "Z">>
LowerLetters == <<"a", "b", "c", "d", "e", "f", "g", "h", "i", "j", "k", "l",
                  "m", "n", "o", "p", "q", "r", "s", "t", "u", "v", "w", "x",
                  "y", "z">>

\* str.lower() of one character
Lower(c) ==
    IF \E i \in 1..26 : UpperLetters[i] = c
    THEN LowerLetters[CHOOSE i \in 1..26 : UpperLetters[i] = c]
    ELSE c
LowerSeq(s) == [i \in 1..Len(s) |-> Lower(s[i])]

DecimalDigits == <<"0", "1", "2", "3", "4", "5", "6", "7", "8", "9">>
IsDigit(c) == \E d \in 1..10 : DecimalDigits[d] = c
DigitValue(c) == (CHOOSE d \in 1..10 : DecimalDigits[d] = c) - 1

\* int(s) for a text of digits
RECURSIVE IntOf(_)
IntOf(s) == IF s = <<>> THEN 0
            ELSE IntOf(SubSeq(s, 1, Len(s) - 1)) * 10 + DigitValue(s[Len(s)])

\* str(n) for n >= 0
RECURSIVE StrOf(_)
StrOf(n) == IF n < 10 THEN <<DecimalDigits[n + 1]>>
            ELSE StrOf(n \div 10) \o <<DecimalDigits[(n % 10) + 1]>>

\* ",".join(names)
RECURSIVE Join(_)
Join(names) ==
    IF names = <<>> THEN <<>>
    ELSE IF Len(names) = 1 THEN names[1]
    ELSE names[1] \o <<",">> \o Join(Tail(names))

\* the digits that follow position p of s, as far as they go
RECURSIVE DigitRun(_, _)
DigitRun(s, p) ==
    IF p <= Len(s) /\ IsDigit(s[p]) THEN <<s[p]>> \o DigitRun(s, p + 1) ELSE <<>>

Max(S) == CHOOSE x \in S : \A y \in S : y <= x

\* openpyxl's avoid_duplicate_name(names, value): a title that some sheet
\* holds already (letter case ignored) gets the next free number appended
AvoidDuplicateName(names, value) ==
    IF \E i \in 1..Len(names) : LowerSeq(names[i]) = LowerSeq(value)
    THEN LET joined == Join(names)
             hits == {p \in 1..Len(joined) :
                        /\ p + Len(value) - 1 <= Len(joined)
                        /\ LowerSeq(SubSeq(joined, p, p + Len(value) - 1))
                             = LowerSeq(value)}
             runs == {DigitRun(joined, p + Len(value)) : p \in hits}
             counts == {IntOf(r) : r \in runs \ {<<>>}}
             highest == IF counts = {} THEN 0 ELSE Max(counts)
         IN  value \o StrOf(highest + 1)
    ELSE value

\* final_workbook.sheetnames
SheetNames(wb) == [i \in 1..Len(wb) |-> wb[i].title]

\* xl.Workbook(), line 279: one empty sheet titled "Sheet".  The field key
\* records the key of the mapping a sheet was created for (JNull: for none).
NewWorkbook == << [title |-> DefaultTitle, cells |-> <<>>, key |-> JNull] >>

\* final_workbook.create_sheet(sheet_name), line 282: the workbook afterwards
CreateSheet(wb, sheet_name) ==
    Append(wb, [title |-> AvoidDuplicateName(SheetNames(wb), sheet_name),
                cells |-> <<>>, key |-> JStr(sheet_name)])

\* the sequence s without its element at position i
RemoveAt(s, i) == SubSeq(s, 1, i - 1) \o SubSeq(s, i + 1, Len(s))

\* lines 295-296: if "Sheet" in final_workbook.sheetnames: del final_workbook["Sheet"]
DeleteDefaultSheet(wb) ==
    IF \E i \in 1..Len(wb) : wb[i].title = DefaultTitle
    THEN RemoveAt(wb, CHOOSE i \in 1..Len(wb) :
                        /\ wb[i].title = DefaultTitle
                        /\ \A k \in 1..(i - 1) : wb[k].title # DefaultTitle)
    ELSE wb

\* the letters a coordinate may name a column with, in either case, and the
\* number of each: A and a are 1, Z and z are 26
ColumnLetters == {UpperLetters[i] : i \in 1..26} \cup {LowerLetters[i] : i \in 1..26}
ColumnNumber(c) == CHOOSE i \in 1..26 : UpperLetters[i] = c \/ LowerLetters[i] = c

RECURSIVE LetterRun(_, _)
LetterRun(s, p) ==
    IF p <= Len(s) /\ s[p] \in ColumnLetters
    THEN <<s[p]>> \o LetterRun(s, p + 1) ELSE <<>>

\* column_index_from_string
RECURSIVE ColumnIndex(_)
ColumnIndex(s) ==
    IF s = <<>> THEN 0
    ELSE ColumnIndex(SubSeq(s, 1, Len(s) - 1)) * 26 + ColumnNumber(s[Len(s)])

\* at most the first three of a run of letters: [A-Za-z]{1,3}
UpToThree(run) == IF Len(run) > 3 THEN SubSeq(run, 1, 3) ELSE run

\* One side of a coordinate or range, read from position p as the library's
\* pattern [$]?([A-Za-z]{1,3})?[$]?(\d+)? reads it: the column letters (no
\* more than three), the row digits (each may be missing) and the position
\* after them
ParseSide(s, p) ==
    LET p1 == IF p <= Len(s) /\ s[p] = "$" THEN p + 1 ELSE p
        col == UpToThree(LetterRun(s, p1))
        p2 == p1 + Len(col)
        p3 == IF p2 <= Len(s) /\ s[p2] = "$" THEN p2 + 1 ELSE p2
        row == DigitRun(s, p3)
    IN  [col |-> col, row |-> row, next |-> p3 + Len(row)]

\* a missing row or column (None) of range_boundaries
None == -1

\* the key has a ":" after its first side a
HasSeparator(key, a) == a.next <= Len(key) /\ key[a.next] = ":"

\* the side after the ":", and no side when there is no ":"
SecondSide(key, a) ==
    IF HasSeparator(key, a) THEN ParseSide(key, a.next + 1)
    ELSE [col |-> <<>>, row |-> <<>>, next |-> a.next]

\* the column or row of a side as a number: None when it is missing
ColumnOf(side) == IF side.col = <<>> THEN None ELSE ColumnIndex(side.col)
RowOf(side) == IF side.row = <<>> THEN None ELSE IntOf(side.row)

\* the "$" that ends the library's pattern: position p is after the end of
\* the key, or it is the newline the key ends with
AtEnd(key, p) == p = Len(key) + 1 \/ (p = Len(key) /\ key[p] = "\n")

\* the sides a and b make a coordinate or a range: nothing after them but
\* a newline that ends the key, and a range gives both columns, or both
\* rows, or all four
ValidSides(key, a, b) ==
    /\ AtEnd(key, b.next)
    /\ HasSeparator(key, a) =>
         \/ a.col # <<>> /\ b.col # <<>> /\ a.row # <<>> /\ b.row # <<>>
         \/ a.col # <<>> /\ b.col # <<>> /\ a.row = <<>> /\ b.row = <<>>
         \/ a.row # <<>> /\ b.row # <<>> /\ a.col = <<>> /\ b.col = <<>>

\* what range_boundaries returns for the sides a and b
BoundariesOf(key, a, b) ==
    [ok |-> ValidSides(key, a, b),
     sep |-> HasSeparator(key, a),
     min_col |-> ColumnOf(a),
     min_row |-> RowOf(a),
     max_col |-> IF b.col = <<>> THEN ColumnOf(a) ELSE ColumnOf(b),
     max_row |-> IF b.row = <<>> THEN RowOf(a) ELSE RowOf(b)]

BoundariesFrom(key, a) == BoundariesOf(key, a, SecondSide(key, a))

\* range_boundaries(key): whether the key is a coordinate or a range, and
\* then min_col, min_row, max_col, max_row, each None when missing, and
\* whether the key has a ":"
RangeBoundaries(key) == BoundariesFrom(key, ParseSide(key, 1))

\* "x or default" for a row or column that may be None or 0
OrElse(x, default) == IF x = None \/ x = 0 THEN default ELSE x

\* worksheet.max_row and worksheet.max_column: 1 on a sheet without cells
MaxRow(cells) ==
    IF DOMAIN cells = {} THEN 1 ELSE Max({rc[1] : rc \in DOMAIN cells})
MaxColumn(cells) ==
    IF DOMAIN cells = {} THEN 1 ELSE Max({rc[2] : rc \in DOMAIN cells})

\* the rows and columns that worksheet[key] walks through for a key that
\* names columns, rows or a range, on a sheet with these cells (iter_cols,
\* iter_rows): what the key leaves open is 1 or the sheet's maximum
TupleRows(cells, rb) ==
    IF rb.min_row = None THEN 1..MaxRow(cells)
    ELSE OrElse(rb.min_row, 1)..OrElse(rb.max_row, MaxRow(cells))
TupleColumns(cells, rb) ==
    IF rb.min_col = None THEN 1..MaxColumn(cells)
    ELSE rb.min_col..OrElse(rb.max_col, MaxColumn(cells))

\* the key is one that worksheet[key] builds a tuple for: a coordinate or
\* range that is not all None or 0, and not a single cell
ForTuple(rb) ==
    /\ rb.ok
    /\ \E x \in {rb.min_col, rb.min_row, rb.max_col, rb.max_row} :
           x # None /\ x # 0
    /\ rb.min_row = None \/ rb.min_col = None \/ rb.sep

\* the last row a cell can be in (_get_cell)
LastRow == 1048576

\* the outcomes of worksheet[key] that are no cell
NoItem(kind) == [kind |-> kind, row |-> 0, col |-> 0]

\* a tuple for rb has a row after the last row in it
RowsTooFar(rb) ==
    /\ rb.min_row # None /\ rb.max_row > LastRow
    /\ OrElse(rb.min_row, 1) <= rb.max_row
    /\ rb.min_col # None => rb.min_col <= rb.max_col

\* rb names nothing: all of it is None or 0
NamesNothing(rb) ==
    \A x \in {rb.min_col, rb.min_row, rb.max_col, rb.max_row} :
        x = None \/ x = 0

\* worksheet[key] from what range_boundaries returns
ItemOf(rb) ==
    IF ~rb.ok THEN NoItem("ValueError")
    ELSE IF NamesNothing(rb) THEN NoItem("IndexError")
    ELSE IF ForTuple(rb)
    THEN IF RowsTooFar(rb) THEN NoItem("ValueError") ELSE NoItem("tuple")
    ELSE IF rb.min_row < 1 \/ rb.min_row > LastRow THEN NoItem("ValueError")
    ELSE [kind |-> "cell", row |-> rb.min_row, col |-> rb.min_col]

\* worksheet[key] for a text, line 291: a ValueError when the text is no
\* coordinate or range; an IndexError when it names nothing (it is empty,
\* or "$", or the row 0); a tuple of cells when it names columns, rows or a
\* range, and a ValueError when a row of these is after the last row; for a
\* single coordinate the cell, and a ValueError when its row is 0 or after
\* the last row. A "$" may stand before the letters and before the digits,
\* the letters may be of either case, and a newline that ends the text is
\* left out of account.
GetItem(key) == ItemOf(RangeBoundaries(key))

\* the cells a tuple for rb is made of on a sheet with these cells, up to
\* the last row; none when rb is not for a tuple
TupleCellsOf(cells, rb) ==
    IF ForTuple(rb)
    THEN {rc \in TupleRows(cells, rb) \X TupleColumns(cells, rb) :
              rc[1] <= LastRow}
    ELSE {}

\* the cells worksheet[key] creates while it builds a tuple: those of the
\* rows and columns it walks through; none for a key that is no coordinate,
\* names nothing or names a single cell
TupleCells(cells, key) == TupleCellsOf(cells, RangeBoundaries(key))

\* the cells of the sheet after worksheet[key]: building a tuple creates
\* those of its cells that did not exist
WithTupleCells(cells, key) ==
    LET all == DOMAIN cells \cup TupleCells(cells, key)
    IN  [rc \in all |-> IF rc \in DOMAIN cells THEN cells[rc] ELSE DefaultCell]

\* the text worksheet[key] takes a str, int or bool key as: an int (and so
\* a bool) is replaced by str(key)
KeyText(v) ==
    CASE v[1] = "str" -> v[2]
      [] v[1] = "num" -> StrOf(v[2])
      [] v[1] = "bool" -> IF v[2] THEN <<"T", "r", "u", "e">>
                          ELSE <<"F", "a", "l", "s", "e">>

\* worksheet[cell_coordinate] for a JSON value: a dict is no text, and the
\* pattern of range_boundaries raises a TypeError on it
Lookup(v) ==
    IF v[1] = "obj" THEN [kind |-> "TypeError", row |-> 0, col |-> 0]
    ELSE GetItem(KeyText(v))

\* a lookup that gives a new cell every time
CellAtFresh(cells, rc) == DefaultCell

\* the cell at <<row, col>> of a sheet, created on first access
CellAt(cells, rc) == IF rc \in DOMAIN cells THEN cells[rc] ELSE DefaultCell

\* final_workbook.save(buf): titles and cells of the sheets, in order
Serialize(wb) ==
    <<"xlsx", [i \in 1..Len(wb) |-> [title |-> wb[i].title, cells |-> wb[i].cells]]>>


-----------------------------------------------------------------------------
(* The mappings generate_excel is given *)

\* the top-level keys tried: the default title, the default title with a
\* number, and a title nothing collides with
Keys == << DefaultTitle, DefaultTitle \o <<"1">>, <<"D", "a", "t", "a">> >>

\* the cell records tried: three for A1 (a title with a fill, a value
\* without, and a value at "$a$1"), three without a usable coordinate (the
\* key missing, null, empty), six whose coordinate names no single cell (no
\* coordinate at all, a column, a cell in row 0, the row 0, a range, and
\* the number 1, which is taken as the row 1)
CellRecords ==
    << ("cell_coordinate" :> JStr(<<"A", "1">>)) @@ ("cell_value" :> JStr("x"))
           @@ TitleStyle,
       ("cell_coordinate" :> JStr(<<"A", "1">>)) @@ ("cell_value" :> JNum(1))
           @@ ValueStyle,
       ("cell_value" :> JStr("x")) @@ ValueStyle,
       ("cell_coordinate" :> JNull) @@ ("cell_value" :> JStr("x")) @@ ValueStyle,
       ("cell_coordinate" :> JStr(<<>>)) @@ ("cell_value" :> JStr("x"))
           @@ ValueStyle,
       ("cell_coordinate" :> JStr(<<"1", "A">>)) @@ ("cell_value" :> JStr("x"))
           @@ ValueStyle,
       ("cell_coordinate" :> JStr(<<"A">>)) @@ ("cell_value" :> JStr("x"))
           @@ ValueStyle,
       ("cell_coordinate" :> JStr(<<"A", "0">>)) @@ ("cell_value" :> JStr("x"))
           @@ ValueStyle,
       ("cell_coordinate" :> JStr(<<"0">>)) @@ ("cell_value" :> JStr("x"))
           @@ ValueStyle,
       ("cell_coordinate" :> JStr(<<"$", "a", "$", "1", "\n">>))
           @@ ("cell_value" :> JNum(2)) @@ ValueStyle,
       ("cell_coordinate" :> JStr(<<"A", "1", ":", "B", "2">>))
           @@ ("cell_value" :> JStr("x")) @@ ValueStyle,
       ("cell_coordinate" :> JNum(1)) @@ ("cell_value" :> JStr("x"))
           @@ ValueStyle >>

\* A mapping is drawn by its shape: the numbers in Keys of its keys, the
\* number of records of each sheet, and the numbers in CellRecords of all its
\* records, one sheet after the other.

RECURSIVE SumTo(_, _)
SumTo(lens, i) == IF i = 0 THEN 0 ELSE SumTo(lens, i - 1) + lens[i]

\* the mapping of a shape: a dict in the order of its keys, as json.loads
\* builds it, each value a list of cell records
MappingOf(keys, lens, recs) ==
    [i \in 1..Len(keys) |->
        [name |-> Keys[keys[i]],
         values |-> [j \in 1..lens[i] |->
                        CellRecords[recs[SumTo(lens, i - 1) + j]]]]]

-----------------------------------------------------------------------------
(* main *)

NoFile == <<"absent">>
OldFile == <<"old">>

\* what main() finds: the input file, what it holds, the API key, and what
\* is at output_path
Envs == [input_exists : BOOLEAN, input_data : {"empty", "data"},
         api_key : BOOLEAN, output_file : {NoFile, OldFile}]
\* the environments in which main() gets as far as the request
GoodEnv(e) == e.input_exists /\ e.input_data = "data" /\ e.api_key

\* what call_llm ends with: an error of the API, one of the two failures of
\* parse_llm_json, or the dict it returns
Failures == {"APIError", NoJsonObjectFound, MalformedJson}

Init ==
    /\ env \in Envs
    \* the reply is read only by a run that gets as far as the call
    /\ \/ /\ GoodEnv(env)
          \* a dict of at most MaxSheets sheets with different keys and of
          \* at most MaxRecords records
          /\ \E n \in 0..MaxSheets :
               \E keys \in [1..n -> 1..Len(Keys)] :
                 /\ \A i, j \in 1..n : i # j => keys[i] # keys[j]
                 /\ \E lens \in [1..n -> 0..MaxRecords] :
                      /\ SumTo(lens, n) <= MaxRecords
                      /\ \E recs \in [1..SumTo(lens, n) -> 1..Len(CellRecords)] :
                           llm_reply = [kind |-> "ok",
                                        value |-> MappingOf(keys, lens, recs)]
       \/ /\ GoodEnv(env)
          /\ \E kind \in Failures : llm_reply = [kind |-> kind, value |-> <<>>]
       \/ /\ ~GoodEnv(env)
          /\ llm_reply = [kind |-> "APIError", value |-> <<>>]
    /\ file = env.output_file
    /\ pc = "exists"
    /\ error = "none"
    /\ mappings = <<>>
    /\ workbook = <<>>
    /\ sheet_i = 0
    /\ value_i = 0
    /\ buf = <<>>
    /\ file_opened = FALSE
    /\ trace = <<>>

Raise(e) == pc' = "failed" /\ error' = e

\* lines 311-312: if not os.path.exists(input_json_path): raise
InputMissing ==
    /\ pc = "exists" /\ ~env.input_exists
    /\ Raise("FileNotFoundError")
    /\ UNCHANGED <<env, llm_reply, mappings, workbook, sheet_i, value_i, buf,
                   file, file_opened, trace>>
    /\ UNCHANGED <<parseVars, styleVars>>

\* lines 311-315: the input file is there and is read
ReadInput ==
    /\ pc = "exists" /\ env.input_exists
    /\ pc' = "load_prompt"
    /\ UNCHANGED <<error, env, llm_reply, mappings, workbook, sheet_i, value_i,
                   buf, file, file_opened, trace>>
    /\ UNCHANGED <<parseVars, styleVars>>

\* line 317, lines 17-18: load_prompt on empty input data
LoadPromptEmpty ==
    /\ pc = "load_prompt" /\ env.input_data = "empty"
    /\ trace' = Append(trace, "load_prompt")
    /\ Raise("ValueError: Input data is empty")
    /\ UNCHANGED <<env, llm_reply, mappings, workbook, sheet_i, value_i, buf,
                   file, file_opened>>
    /\ UNCHANGED <<parseVars, styleVars>>

\* line 317, lines 20-188: load_prompt returns the prompt
LoadPrompt ==
    /\ pc = "load_prompt" /\ env.input_data # "empty"
    /\ trace' = Append(trace, "load_prompt")
    /\ pc' = "call_llm"
    /\ UNCHANGED <<error, env, llm_reply, mappings, workbook, sheet_i, value_i,
                   buf, file, file_opened>>
    /\ UNCHANGED <<parseVars, styleVars>>

\* line 318, lines 212-214: call_llm without an API key
CallLlmNoKey ==
    /\ pc = "call_llm" /\ ~env.api_key
    /\ trace' = Append(trace, "call_llm")
    /\ Raise("ValueError: GEMINI_API_KEY environment variable is not set")
    /\ UNCHANGED <<env, llm_reply, mappings, workbook, sheet_i, value_i, buf,
                   file, file_opened>>
    /\ UNCHANGED <<parseVars, styleVars>>

\* a call_llm that asks the producer again when the answer is no use
CallLlmRetries ==
    /\ pc = "call_llm" /\ env.api_key /\ llm_reply.kind # "ok"
    /\ Len(trace) < 4
    /\ trace' = Append(trace, "call_llm")
    /\ UNCHANGED <<pc, error, env, llm_reply, mappings, workbook, sheet_i,
                   value_i, buf, file, file_opened>>
    /\ UNCHANGED <<parseVars, styleVars>>

\* line 318, lines 216-222: the request or parse_llm_json raises
CallLlmFails ==
    /\ pc = "call_llm" /\ env.api_key /\ llm_reply.kind # "ok"
    /\ trace' = Append(trace, "call_llm")
    /\ Raise(llm_reply.kind)
    /\ UNCHANGED <<env, llm_reply, mappings, workbook, sheet_i, value_i, buf,
                   file, file_opened>>
    /\ UNCHANGED <<parseVars, styleVars>>

\* line 318, lines 216-222: call_llm returns what parse_llm_json returns
CallLlm ==
    /\ pc = "call_llm" /\ env.api_key /\ llm_reply.kind = "ok"
    /\ trace' = Append(trace, "call_llm")
    /\ mappings' = llm_reply.value
    /\ pc' = "generate_excel"
    /\ UNCHANGED <<error, env, llm_reply, workbook, sheet_i, value_i, buf, file,
                   file_opened>>
    /\ UNCHANGED <<parseVars, styleVars>>


-----------------------------------------------------------------------------
(* generate_excel, statement by statement *)

\* the record the loop of line 284 is at
CurrentValue == mappings[sheet_i].values[value_i]

\* a test for "no record" in place of "no sheet"
NotMappingsNoRecords(m) == \A i \in 1..Len(m) : m[i].values = <<>>

\* not output_data_mappings, line 276: the dict has no key
NotMappings(m) == m = <<>>

\* raise ValueError("Output data mappings are empty"), line 277
EmptyLayout == "ValueError: Output data mappings are empty"

\* lines 276-277: if not output_data_mappings: raise ValueError
EmptyMappings ==
    /\ pc = "generate_excel" /\ NotMappings(mappings)
    /\ trace' = Append(trace, "generate_excel")
    /\ Raise(EmptyLayout)
    /\ UNCHANGED <<env, llm_reply, mappings, workbook, sheet_i, value_i, buf,
                   file, file_opened>>
    /\ UNCHANGED <<parseVars, styleVars>>

\* the workbook is created with output_path opened for writing around the
\* loop, which empties the file at once
NewWorkbookOpeningFile ==
    /\ pc = "generate_excel" /\ ~NotMappings(mappings)
    /\ trace' = Append(trace, "generate_excel")
    /\ workbook' = NewWorkbook
    /\ sheet_i' = 1
    /\ pc' = "sheet"
    /\ file_opened' = TRUE
    /\ file' = <<"xlsx", <<>>>>
    /\ UNCHANGED <<error, env, llm_reply, mappings, value_i, buf>>
    /\ UNCHANGED <<parseVars, styleVars>>

\* lines 276-279: the mapping is not empty; final_workbook = xl.Workbook()
NewWorkbookStep ==
    /\ pc = "generate_excel" /\ ~NotMappings(mappings)
    /\ trace' = Append(trace, "generate_excel")
    /\ workbook' = NewWorkbook
    /\ sheet_i' = 1
    /\ pc' = "sheet"
    /\ UNCHANGED <<error, env, llm_reply, mappings, value_i, buf, file,
                   file_opened>>
    /\ UNCHANGED <<parseVars, styleVars>>

\* lines 281-282: the next item of the mapping; its sheet is created
CreateSheetStep ==
    /\ pc = "sheet" /\ sheet_i <= Len(mappings)
    /\ workbook' = CreateSheet(workbook, mappings[sheet_i].name)
    /\ value_i' = 1
    /\ pc' = "value"
    /\ UNCHANGED <<error, env, llm_reply, mappings, sheet_i, buf, file,
                   file_opened, trace>>
    /\ UNCHANGED <<parseVars, styleVars>>

\* line 284: the records of the sheet are exhausted
NextSheet ==
    /\ pc = "value" /\ value_i > Len(mappings[sheet_i].values)
    /\ sheet_i' = sheet_i + 1
    /\ pc' = "sheet"
    /\ UNCHANGED <<error, env, llm_reply, mappings, workbook, value_i, buf,
                   file, file_opened, trace>>
    /\ UNCHANGED <<parseVars, styleVars>>

\* "if cell_coordinate is None" in place of "if not cell_coordinate"
SkippedIfNone(value) == Get(value, "cell_coordinate", JNull) = JNull

\* whether line 288 skips the record: if not cell_coordinate: continue
Skipped(value) == ~Truthy(Get(value, "cell_coordinate", JNull))

\* lines 285-289: a record without a coordinate is passed over
SkipValue ==
    /\ pc = "value" /\ value_i <= Len(mappings[sheet_i].values)
    /\ Skipped(CurrentValue)
    /\ value_i' = value_i + 1
    /\ UNCHANGED <<pc, error, env, llm_reply, mappings, workbook, sheet_i, buf,
                   file, file_opened, trace>>
    /\ UNCHANGED <<parseVars, styleVars>>

\* lines 285-293: the record is written into its cell and the cell styled
ApplyValue ==
    /\ pc = "value" /\ value_i <= Len(mappings[sheet_i].values)
    /\ ~Skipped(CurrentValue)
    /\ LET ref == Lookup(CurrentValue["cell_coordinate"])
           rc == <<ref.row, ref.col>>
           ws == workbook[Len(workbook)]
       IN  /\ ref.kind = "cell"
           /\ workbook' = [workbook EXCEPT ![Len(workbook)].cells =
                  (rc :> ApplyRecord(CellAt(ws.cells, rc), CurrentValue))
                      @@ ws.cells]
    /\ value_i' = value_i + 1
    /\ UNCHANGED <<pc, error, env, llm_reply, mappings, sheet_i, buf, file,
                   file_opened, trace>>
    /\ UNCHANGED <<parseVars, styleVars>>

\* the AttributeError of "cell.value = cell_value" on a tuple, line 292
NoValueOnTuple == "AttributeError: 'tuple' object has no attribute 'value'"

\* lines 291-292: worksheet[cell_coordinate] raises, or gives a tuple of
\* cells, on which cell.value = ... raises; the cells it has created for a
\* tuple are in the sheet
BadCoordinate ==
    /\ pc = "value" /\ value_i <= Len(mappings[sheet_i].values)
    /\ ~Skipped(CurrentValue)
    /\ LET coordinate == CurrentValue["cell_coordinate"]
           ref == Lookup(coordinate)
           ws == workbook[Len(workbook)]
       IN  /\ ref.kind # "cell"
           /\ workbook' =
                IF ref.kind = "TypeError" THEN workbook
                ELSE [workbook EXCEPT ![Len(workbook)].cells =
                          WithTupleCells(ws.cells, KeyText(coordinate))]
           /\ Raise(IF ref.kind = "tuple" THEN NoValueOnTuple ELSE ref.kind)
    /\ UNCHANGED <<env, llm_reply, mappings, sheet_i, value_i, buf,
                   file, file_opened, trace>>
    /\ UNCHANGED <<parseVars, styleVars>>

\* lines 281, 295-296: the items are exhausted; the sheet "Sheet" is deleted
DeleteSheet ==
    /\ pc = "sheet" /\ sheet_i > Len(mappings)
    /\ workbook' = DeleteDefaultSheet(workbook)
    /\ pc' = "save"
    /\ UNCHANGED <<error, env, llm_reply, mappings, sheet_i, value_i, buf, file,
                   file_opened, trace>>
    /\ UNCHANGED <<parseVars, styleVars>>

\* lines 298-300: the workbook is serialized into the buffer
SaveToBuffer ==
    /\ pc = "save"
    /\ buf' = Serialize(workbook)
    /\ pc' = "write"
    /\ UNCHANGED <<error, env, llm_reply, mappings, workbook, sheet_i, value_i,
                   file, file_opened, trace>>
    /\ UNCHANGED <<parseVars, styleVars>>

\* lines 302-303: output_path is opened and the buffer written to it
WriteFile ==
    /\ pc = "write"
    /\ file_opened' = TRUE
    /\ file' = buf
    /\ pc' = "print"
    /\ UNCHANGED <<error, env, llm_reply, mappings, workbook, sheet_i, value_i,
                   buf, trace>>
    /\ UNCHANGED <<parseVars, styleVars>>

\* line 321: main reports the file and returns
Finish ==
    /\ pc = "print"
    /\ pc' = "done"
    /\ UNCHANGED <<error, env, llm_reply, mappings, workbook, sheet_i, value_i,
                   buf, file, file_opened, trace>>
    /\ UNCHANGED <<parseVars, styleVars>>

-----------------------------------------------------------------------------
(* The specifications *)

\* the variables of the other specifications, at rest
IdleParse ==
    /\ raw_text = <<>> /\ json_text = <<>> /\ family = "none"
    /\ result = Pending /\ json_result = Pending
IdleStyle ==
    /\ style_data = <<>> /\ cell_before = DefaultCell
    /\ cell_after = DefaultCell /\ style_done = FALSE
IdleMain ==
    /\ pc = "idle" /\ error = "none"
    /\ env = [input_exists |-> TRUE, input_data |-> "data", api_key |-> TRUE,
              output_file |-> NoFile]
    /\ llm_reply = [kind |-> "APIError", value |-> <<>>]
    /\ mappings = <<>> /\ workbook = <<>> /\ sheet_i = 0 /\ value_i = 0
    /\ buf = <<>> /\ file = NoFile /\ file_opened = FALSE /\ trace = <<>>

NextParse == CallParse
StartParse == InitParse /\ IdleStyle /\ IdleMain
SpecParse == StartParse /\ [][NextParse]_vars

NextStyle == ApplyStyle
StartStyle == InitStyle /\ IdleParse /\ IdleMain
SpecStyle == StartStyle /\ [][NextStyle]_vars

Next ==
    \/ InputMissing
    \/ ReadInput
    \/ LoadPromptEmpty
    \/ LoadPrompt
    \/ CallLlmNoKey
    \/ CallLlmFails
    \/ CallLlm
    \/ EmptyMappings
    \/ NewWorkbookStep
    \/ CreateSheetStep
    \/ NextSheet
    \/ SkipValue
    \/ ApplyValue
    \/ BadCoordinate
    \/ DeleteSheet
    \/ SaveToBuffer
    \/ WriteFile
    \/ Finish

StartMain == Init /\ IdleParse /\ IdleStyle
Spec == StartMain /\ [][Next]_vars


-----------------------------------------------------------------------------
(* Claims about parse_llm_json, checked under SpecParse *)

Min(S) == CHOOSE x \in S : \A y \in S : x <= y
Positions(text, c) == {i \in 1..Len(text) : text[i] = c}

\* the text lacks an opening brace or lacks a closing brace
MissingBrace(text) == Positions(text, LB) = {} \/ Positions(text, RB) = {}

\* the part of the text from its first opening to its last closing brace
Enclosed(text) ==
    SubSeq(text, Min(Positions(text, LB)), Max(Positions(text, RB)))

\* the number of braces open after the first n characters of the text
RECURSIVE Depth(_, _)
Depth(text, n) ==
    IF n = 0 THEN 0
    ELSE Depth(text, n - 1) + (IF text[n] = LB THEN 1 ELSE 0)
                            - (IF text[n] = RB THEN 1 ELSE 0)

\* the braces of the text are unbalanced: the counts differ, or a closing
\* brace comes before its opening one
Unbalanced(text) ==
    \/ Depth(text, Len(text)) # 0
    \/ \E n \in 1..Len(text) : Depth(text, n) < 0

\* C1: a valid JSON object J parses to the same value alone, in a fence with
\* or without a language tag, between prose with no opening brace before it
\* and no closing brace after it, and in the combinations of these.
C1_WrappedParsesAlike ==
    (family = "wrapped" /\ result # Pending /\ IsJsonObject(json_text)) =>
        /\ result.kind = "ok"
        /\ result = json_result
        /\ result.value = JsonLoads(json_text).val

\* C1: a non-empty object, in a fence with a tag and prose on both sides, is
\* parsed
C1_Witness ==
    /\ family = "wrapped" /\ result.kind = "ok"
    /\ result.value # <<"obj", <<>>>>
    /\ StartsWith(raw_text, Fence \o <<"a", NL, "a", RB, NL>>)
    /\ EndsWith(raw_text, <<NL, LB, "a", NL>> \o Fence)

\* C2, as stated: every text with unbalanced braces fails with
\* NoJsonObjectFound.
C2_UnbalancedIsNoJsonObject ==
    (result # Pending /\ Unbalanced(raw_text)) =>
        result.kind = NoJsonObjectFound

\* C2, amended: a text with unbalanced braces fails with NoJsonObjectFound
\* exactly when its fence-stripped text lacks an opening or lacks a closing
\* brace; when it holds both and the last closing brace comes before the
\* first opening one, it fails with MalformedJson.
C2_UnbalancedOutcome ==
    (result # Pending /\ Unbalanced(raw_text)) =>
        LET text == FenceStrip(raw_text)
        IN  /\ result.kind = NoJsonObjectFound <=> MissingBrace(text)
            /\ (~MissingBrace(text)
                  /\ Max(Positions(text, RB)) < Min(Positions(text, LB)))
                 => result.kind = MalformedJson

\* C2: "} {" has been given to parse_llm_json, which failed with MalformedJson
C2_Witness ==
    /\ raw_text = <<RB, SP, LB>>
    /\ result.kind = MalformedJson

\* C3: parse_llm_json ends in one of three ways: NoJsonObjectFound, without
\* a call of json.loads, exactly when the fence-stripped text lacks an
\* opening or a closing brace; otherwise MalformedJson exactly when the part
\* from the first opening to the last closing brace is not valid JSON;
\* otherwise the parsed value.
C3_TwoFailures ==
    result # Pending =>
        LET text == FenceStrip(raw_text)
        IN  /\ result.kind \in {"ok", NoJsonObjectFound, MalformedJson}
            /\ result.kind = NoJsonObjectFound <=> MissingBrace(text)
            /\ result.loads_called <=> ~MissingBrace(text)
            /\ ~MissingBrace(text) =>
                 /\ result.kind = MalformedJson <=> ~JsonLoads(Enclosed(text)).ok
                 /\ result.kind = "ok" =>
                      result.value = JsonLoads(Enclosed(text)).val

\* C3: a text with both braces, in order, around something that is no JSON
\* has failed with MalformedJson
C3_Witness ==
    /\ raw_text = <<LB, "a", RB>>
    /\ result.kind = MalformedJson /\ result.loads_called


-----------------------------------------------------------------------------
(* Claims about apply_cell_style, checked under SpecStyle *)

\* the border side each border key of a record styles
SideOf == [border_top |-> "top", border_bottom |-> "bottom",
           border_left |-> "left", border_right |-> "right"]

Solid(color) ==
    [fill_type |-> JStr("solid"), start_color |-> color, end_color |-> color]

\* value, font and alignment of the cell are those the record supplies
TakenFromRecord ==
    /\ cell_after.value = Get(style_data, "cell_value", JNull)
    /\ "font_size" \in DOMAIN style_data =>
           cell_after.font.size = style_data["font_size"]
    /\ "font_color" \in DOMAIN style_data =>
           cell_after.font.color = style_data["font_color"]
    /\ "is_bold" \in DOMAIN style_data =>
           cell_after.font.bold = style_data["is_bold"]
    /\ "is_italic" \in DOMAIN style_data =>
           cell_after.font.italic = style_data["is_italic"]
    /\ "horizontal_alignment" \in DOMAIN style_data =>
           cell_after.alignment.horizontal = style_data["horizontal_alignment"]
    /\ "vertical_alignment" \in DOMAIN style_data =>
           cell_after.alignment.vertical = style_data["vertical_alignment"]

\* a side whose style is a border style has it in the record's border color;
\* a side whose style is "none" has no border
SidesFromRecord ==
    \A k \in DOMAIN SideOf :
        k \in DOMAIN style_data =>
            LET st == style_data[k]
                side == cell_after.border[SideOf[k]]
            IN  /\ st = JStr("none") => side = NoSide
                /\ (Truthy(st) /\ st # JStr("none")) =>
                       /\ side.style = st
                       /\ "border_color" \in DOMAIN style_data =>
                              side.color = style_data["border_color"]

\* a key the record lacks is taken with its default: size 11, color
\* "000000", not bold, not italic, left, center, no border, and "D3D3D3" for
\* the color of the borders there are
DefaultsForMissing ==
    /\ "font_size" \notin DOMAIN style_data => cell_after.font.size = JNum(11)
    /\ "font_color" \notin DOMAIN style_data =>
           cell_after.font.color = JStr("000000")
    /\ "is_bold" \notin DOMAIN style_data => cell_after.font.bold = JBool(FALSE)
    /\ "is_italic" \notin DOMAIN style_data =>
           cell_after.font.italic = JBool(FALSE)
    /\ "horizontal_alignment" \notin DOMAIN style_data =>
           cell_after.alignment.horizontal = JStr("left")
    /\ "vertical_alignment" \notin DOMAIN style_data =>
           cell_after.alignment.vertical = JStr("center")
    /\ \A k \in DOMAIN SideOf :
           /\ k \notin DOMAIN style_data => cell_after.border[SideOf[k]] = NoSide
           /\ ("border_color" \notin DOMAIN style_data
                 /\ cell_after.border[SideOf[k]] # NoSide)
                => cell_after.border[SideOf[k]].color = JStr("D3D3D3")

\* C9, as stated: the applied record decides value and style of the cell; a
\* null background_color leaves the cell without fill and a non-null one
\* gives a solid fill of that color.
C9_StyleAsRecorded ==
    style_done =>
        /\ TakenFromRecord
        /\ SidesFromRecord
        /\ LET bg == Get(style_data, "background_color", JNull)
           IN  IF bg = JNull
               THEN cell_after.fill.fill_type = JNull
               ELSE cell_after.fill = Solid(bg)

\* C9, amended: as stated, but a background_color that is null, missing or
\* empty (the empty text, the empty object) leaves the fill of the cell as
\* it was before the record (none on a new cell), a border style that is
\* null or empty gives no border, and a key the record lacks is taken with
\* its default.
C9_StyleAsApplied ==
    style_done =>
        /\ TakenFromRecord
        /\ SidesFromRecord
        /\ LET bg == Get(style_data, "background_color", JNull)
           IN  IF bg \in {JNull, JStr(""), JEmptyObj}
               THEN cell_after.fill = cell_before.fill
               ELSE cell_after.fill = Solid(bg)
        /\ \A k \in DOMAIN SideOf :
               (k \in DOMAIN style_data /\ style_data[k] \in {JNull, JStr("")})
                   => cell_after.border[SideOf[k]] = NoSide
        /\ DefaultsForMissing

\* C9: a record with an empty background_color and a "none" border has been
\* applied to a cell that an earlier record had filled
C9_Witness ==
    /\ style_done
    /\ style_data["border_right"] = JStr("none")
    /\ "background_color" \in DOMAIN style_data
    /\ style_data["background_color"] = JStr("")
    /\ cell_before.fill = Solid(JStr("FFD2BF"))
    /\ cell_after.fill = Solid(JStr("FFD2BF"))


-----------------------------------------------------------------------------
(* Claims about generate_excel and main, checked under Spec *)

\* the exceptions that applying a record raises
RecordFailures == {"ValueError", NoValueOnTuple, "IndexError", "TypeError"}

\* the record has no cell_coordinate: the key is missing, or its value is
\* one Python takes as false (null, "", 0, false, {})
NoCoordinate(value) ==
    \/ "cell_coordinate" \notin DOMAIN value
    \/ value["cell_coordinate"] \in
           {JNull, JStr(<<>>), JNum(0), JBool(FALSE), JEmptyObj}

IsLetter(c) == \E n \in 1..26 : c = UpperLetters[n] \/ c = LowerLetters[n]

\* the text without the newline it ends with, if it ends with one
WithoutLastNewline(text) ==
    IF text # <<>> /\ text[Len(text)] = "\n"
    THEN SubSeq(text, 1, Len(text) - 1) ELSE text

\* the text is one to three letters, of either case, then the digits of a
\* row number from 1 to 1048576, with or without a "$" before the letters
\* and before the digits
LettersThenRow(key) ==
    \E d1 \in 0..1, k \in 1..3, d2 \in 0..1 :
        /\ d1 + k + d2 < Len(key)
        /\ d1 = 1 => key[1] = "$"
        /\ \A i \in (d1 + 1)..(d1 + k) : IsLetter(key[i])
        /\ d2 = 1 => key[d1 + k + 1] = "$"
        /\ \A i \in (d1 + k + d2 + 1)..Len(key) : IsDigit(key[i])
        /\ IntOf(SubSeq(key, d1 + k + d2 + 1, Len(key))) \in 1..1048576

\* the text names one cell: it is letters and a row, with or without a
\* newline that ends it
NamesOneCell(text) == LettersThenRow(WithoutLastNewline(text))

\* the record has a text as coordinate that names one cell
NamesCell(value) ==
    /\ ~NoCoordinate(value)
    /\ value["cell_coordinate"][1] = "str"
    /\ NamesOneCell(value["cell_coordinate"][2])

\* the cell <<row, column>> a coordinate names: the column is numbered from
\* its letters as a number to the base 26, whatever their case
CellNamed(coordinate) ==
    LET key == SelectSeq(coordinate, LAMBDA c : c # "$" /\ c # "\n")
        k == CHOOSE k \in 1..3 :
                 /\ k < Len(key)
                 /\ \A i \in (k + 1)..Len(key) : IsDigit(key[i])
                 /\ (k = 1 \/ ~IsDigit(key[k]))
        letter(i) == CHOOSE n \in 1..26 :
                         key[i] = UpperLetters[n] \/ key[i] = LowerLetters[n]
        column == IF k = 1 THEN letter(1)
                  ELSE IF k = 2 THEN letter(1) * 26 + letter(2)
                  ELSE (letter(1) * 26 + letter(2)) * 26 + letter(3)
    IN  <<IntOf(SubSeq(key, k + 1, Len(key))), column>>

\* the record has a coordinate, and it does not name one cell
Undecodable(value) == ~NoCoordinate(value) /\ ~NamesCell(value)

\* the positions <<sheet, record>> of the records of a mapping
RecordsOf(m) == {<<i, j>> : i \in 1..Len(m), j \in 1..MaxRecords + 1} \cap
                {ij \in (1..Len(m)) \X (1..MaxRecords + 1) :
                     ij[2] <= Len(m[ij[1]].values)}

\* two records of one sheet carry the same cell_coordinate
DuplicateCoordinate(m) ==
    \E i \in 1..Len(m) : \E j, k \in 1..Len(m[i].values) :
        /\ j # k
        /\ ~NoCoordinate(m[i].values[j]) /\ ~NoCoordinate(m[i].values[k])
        /\ m[i].values[j]["cell_coordinate"] = m[i].values[k]["cell_coordinate"]

\* generate_excel has been called
Rendering == \E n \in 1..Len(trace) : trace[n] = "generate_excel"

\* the sheets of the file that was written
Sheets == file[2]

\* C4, as stated: a mapping in which two records of one sheet carry the same
\* cell_coordinate never reaches generate_excel.
C4_DuplicatesNeverRendered ==
    (llm_reply.kind = "ok" /\ DuplicateCoordinate(llm_reply.value)) => ~Rendering

\* C4, amended: the parsed mapping reaches generate_excel as it is, without
\* validation; records of one sheet whose coordinates name the same cell
\* (the same cell_coordinate, or the same but for the case of its letters,
\* for "$" signs and for a newline at the end)
\* are applied one after the other to that cell, so that in the file the
\* cell holds the value, font, alignment and border of the last of them and
\* the fill of the last of them that has a background_color.
C4_DuplicatesOverwrite ==
    /\ Rendering => mappings = llm_reply.value
    /\ pc = "done" =>
         \A i \in 1..Len(mappings) :
           LET values == mappings[i].values
               with(c) == {j \in 1..Len(values) :
                             /\ ~NoCoordinate(values[j])
                             /\ CellNamed(values[j]["cell_coordinate"][2])
                                  = CellNamed(c[2])}
               filling(c) == {j \in with(c) :
                                Truthy(Get(values[j], "background_color", JNull))}
           IN  \A n \in 1..Len(values) :
                 ~NoCoordinate(values[n]) =>
                   LET c == values[n]["cell_coordinate"]
                       written == Sheets[i].cells[CellNamed(c[2])]
                   IN  /\ written.value = values[Max(with(c))]["cell_value"]
                       /\ written.font = FontOf(values[Max(with(c))])
                       /\ written.alignment = AlignmentOf(values[Max(with(c))])
                       /\ written.border = BorderOf(values[Max(with(c))])
                       /\ written.fill =
                            IF filling(c) = {} THEN DefaultCell.fill
                            ELSE Solid(values[Max(filling(c))]["background_color"])

\* C4: a file has been written from a sheet whose two records are both for
\* A1; the cell holds the value of the second and the fill of the first
C4_Witness ==
    /\ pc = "done" /\ DuplicateCoordinate(mappings)
    /\ Sheets[1].cells[<<1, 1>>].value = JNum(1)
    /\ Sheets[1].cells[<<1, 1>>].fill = Solid(JStr("FFD2BF"))

\* C5, as stated: no record whose cell_coordinate is missing, null, empty or
\* not decodable is dropped while the file is written.
C5_NoRecordDropped ==
    file_opened =>
        \A ij \in RecordsOf(mappings) :
            LET value == mappings[ij[1]].values[ij[2]]
            IN  ~NoCoordinate(value) /\ ~Undecodable(value)

\* C5, amended: a record whose cell_coordinate is missing or is a value
\* Python takes as false (null, "", 0, false, {}) is passed over without an
\* error: it writes no cell, the other records are rendered and the file is
\* written. Every other record is either rendered into the one cell its
\* coordinate names (letters of either case and a row from 1 to 1048576,
\* each with or without a "$" before it), or generate_excel fails at it, the
\* first such record, and writes no file: so for a column, a row, a range,
\* a row out of range, a text that is no coordinate, a number or a dict.
C5_BadCoordinateFailsEmptySkipped ==
    /\ error \in RecordFailures =>
         /\ pc = "failed"
         /\ Undecodable(CurrentValue)
         /\ \A ij \in RecordsOf(mappings) :
                (ij[1] < sheet_i \/ (ij[1] = sheet_i /\ ij[2] < value_i))
                    => ~Undecodable(mappings[ij[1]].values[ij[2]])
         /\ ~file_opened /\ file = env.output_file
    /\ pc \in {"save", "write", "print", "done"} =>
         \A ij \in RecordsOf(mappings) :
             ~Undecodable(mappings[ij[1]].values[ij[2]])
    /\ pc = "done" =>
         \A i \in 1..Len(mappings) :
             DOMAIN Sheets[i].cells =
                 { CellNamed(v["cell_coordinate"][2]) :
                   v \in {mappings[i].values[j] : j \in
                            {j \in 1..Len(mappings[i].values) :
                                ~NoCoordinate(mappings[i].values[j])}} }

\* C5: a file has been written from a sheet with a record without
\* coordinate and a record for A1
C5_Witness ==
    /\ pc = "done"
    /\ Len(mappings[1].values) = 2
    /\ NoCoordinate(mappings[1].values[1])
    /\ ~NoCoordinate(mappings[1].values[2])
    /\ DOMAIN Sheets[1].cells = {<<1, 1>>}

\* C6: output_path is opened and written only after every record of every
\* sheet has been applied and the workbook serialized into the buffer; when
\* applying a record fails, the file is as it was before the call.
C6_WriteAfterAllApplied ==
    /\ file_opened =>
         /\ pc \in {"print", "done"}
         /\ sheet_i > Len(mappings)
         /\ buf = Serialize(workbook)
         /\ file = buf
    /\ ~file_opened => file = env.output_file
    /\ error \in RecordFailures =>
         /\ ~file_opened
         /\ file = env.output_file

\* C6: the second record failed after the first was applied, and the file
\* that was there before is still there
C6_Witness ==
    /\ error \in RecordFailures
    /\ value_i = 2
    /\ NamesCell(mappings[sheet_i].values[1])
    /\ workbook[Len(workbook)].cells[<<1, 1>>].value = JStr("x")
    /\ env.output_file = OldFile /\ file = OldFile

\* C7: the file holds one sheet for each top-level key, titled with the key,
\* in the order of the keys, and no other sheet.
C7_OneSheetPerKey ==
    pc = "done" =>
        /\ Len(Sheets) = Len(mappings)
        /\ \A i \in 1..Len(mappings) : Sheets[i].title = mappings[i].name

\* C8: generate_excel fails with EmptyLayout exactly on a mapping without
\* sheets, and then before a workbook exists and with output_path untouched;
\* a mapping with a sheet, even one without records, never fails so.
C8_EmptyLayout ==
    /\ error = EmptyLayout =>
         /\ llm_reply.value = <<>>
         /\ workbook = <<>> /\ buf = <<>>
         /\ ~file_opened /\ file = env.output_file
    /\ (Rendering /\ llm_reply.value = <<>>) =>
         (pc = "failed" /\ error = EmptyLayout)
    /\ (pc = "done" /\ \A i \in 1..Len(mappings) : mappings[i].values = <<>>) =>
         (file_opened /\ Len(Sheets) = Len(mappings))

\* C8: generate_excel has failed on the empty mapping, the old file is there
C8_Witness ==
    /\ error = EmptyLayout /\ Rendering
    /\ llm_reply.kind = "ok"
    /\ file = OldFile

\* the stages of main, in their order
StageOrder == <<"load_prompt", "call_llm", "generate_excel">>

\* C10: the stages start at most once each and in the order load_prompt,
\* call_llm, generate_excel; a failure ends the run, with no step after it;
\* the file is written only when all three stages have started and none
\* has failed.
C10_StagesOnceInOrder ==
    /\ Len(trace) <= 3
    /\ \A n \in 1..Len(trace) : trace[n] = StageOrder[n]
    /\ (pc = "failed") <=> (error # "none")
    /\ pc \in {"failed", "done"} => ~ENABLED Next
    /\ file_opened => (trace = StageOrder /\ error = "none")
    /\ file # env.output_file => file_opened

\* C10: call_llm has failed on an answer that holds no JSON; generate_excel
\* has not started and there is no file
C10_Witness ==
    /\ pc = "failed" /\ error = NoJsonObjectFound
    /\ trace = <<"load_prompt", "call_llm">>
    /\ ~file_opened /\ file = NoFile


=============================================================================
